---- MODULE Spec2Model ----
(***************************************************************************)
(* Model of the request handler run_test of src/app.py (POST /api/run-test):*)
(* read the request, run the speedtest command under a deadline, extract   *)
(* the last '{'-prefixed line of its stdout, decode it, normalise the three *)
(* metrics, ask the analysis service for a report, and answer; every       *)
(* exception is turned into a {success: false, message} response by one of *)
(* the four except clauses.                                                *)
(*                                                                         *)
(* Text is a sequence of symbols.  A symbol is a character, a literal of   *)
(* one of the handler's message templates (kept whole, with the Norwegian  *)
(* letters written in ASCII), or the text of one JSON member               *)
(* ("ping:20.3" stands for the member "ping": 20.3).  An f-string is the   *)
(* concatenation of its literals and its interpolated texts.               *)
(* A JSON number is [t, v]: t is "int" or "float" and v the value in       *)
(* tenths; any JSON value that is not a number is [t |-> "other"].         *)
(***************************************************************************)
EXTENDS Integers, Sequences, FiniteSets, TLC

\* The handler's position and locals, the responses it has returned, and what
\* is recorded of the run: the request body received, how the process ended
\* ("exited", "timeout" or "spawn_error"), the stages run in order, the number
\* of subprocess.run and generate_content calls, and the stage that raised.
VARIABLES pc, user_context, process, json_output, test_data_raw, metrics,
          test_data, prompt, responses, request_body, run_outcome, trace,
          spawned, ai_calls, failed

vars == <<pc, user_context, process, json_output, test_data_raw, metrics,
          test_data, prompt, responses, request_body, run_outcome, trace,
          spawned, ai_calls, failed>>

\* ------------------------------------------------------------------ bounds
\* Longest stdout, in symbols, the measurement process is given.
MaxLen == 4

\* ------------------------------------------------------- program constants
\* timeout=30 of subprocess.run, in seconds.
TimeoutSecs == 30
\* The divisor of bits/s to Mbit/s.
Million == 1000000
\* The largest ping, in ms, that is shown as a number.
PingMax == 10000

\* -------------------------------------------------------------------- text
\* The characters str.strip() removes, among those the model draws.
Whitespace == {" ", "\t", "\n"}
\* The line boundaries of str.splitlines(), among those the model draws.
LineBreaks == {"\n"}

SetMin(S) == CHOOSE x \in S : \A y \in S : x <= y
SetMax(S) == CHOOSE x \in S : \A y \in S : x >= y

\* Mutant of Strip: str.rstrip(), only the trailing whitespace removed.
StripRightOnly(s) ==
    LET idx == {i \in 1..Len(s) : s[i] \notin Whitespace}
    IN  IF idx = {} THEN <<>> ELSE SubSeq(s, 1, SetMax(idx))

\* str.strip(): the text without its leading and trailing whitespace.
Strip(s) ==
    LET idx == {i \in 1..Len(s) : s[i] \notin Whitespace}
    IN  IF idx = {} THEN <<>> ELSE SubSeq(s, SetMin(idx), SetMax(idx))

\* str.splitlines(): the lines of s, without their line breaks; a final line
\* break opens no further line.
RECURSIVE SplitLines(_)
SplitLines(s) ==
    IF s = <<>> THEN <<>>
    ELSE LET brk == {i \in 1..Len(s) : s[i] \in LineBreaks}
         IN  IF brk = {} THEN <<s>>
             ELSE <<SubSeq(s, 1, SetMin(brk) - 1)>>
                  \o SplitLines(SubSeq(s, SetMin(brk) + 1, Len(s)))

\* Mutant of StartsWith: c in s, anywhere in the text.
StartsWithAnywhere(s, c) == \E i \in 1..Len(s) : s[i] = c

\* str.startswith(c) for a one-symbol prefix.
StartsWith(s, c) == Len(s) >= 1 /\ s[1] = c

\* The texts of at most n symbols over the alphabet A.
TextsUpTo(A, n) == UNION {[1..k -> A] : k \in 0..n}

\* ------------------------------------------------------------ JSON values
IntNum(n) == [t |-> "int", v |-> 10 * n]
FloatNum(tenths) == [t |-> "float", v |-> tenths]
Other == [t |-> "other", v |-> 0]
IsNumber(x) == x.t \in {"int", "float"}

\* The JSON members the measurement tool's output is drawn from: the text of
\* the member as a symbol, its key and the value json.loads gives it.
MemberTable ==
    { [tok |-> "download:-1",       key |-> "download", val |-> IntNum(-1)],
      [tok |-> "download:0",        key |-> "download", val |-> IntNum(0)],
      [tok |-> "download:0.0",      key |-> "download", val |-> FloatNum(0)],
      [tok |-> "download:1",        key |-> "download", val |-> IntNum(1)],
      [tok |-> "download:125000",   key |-> "download", val |-> IntNum(125000)],
      [tok |-> "download:375000.0", key |-> "download", val |-> FloatNum(3750000)],
      [tok |-> "download:12345678", key |-> "download", val |-> IntNum(12345678)],
      [tok |-> "download:50000000", key |-> "download", val |-> IntNum(50000000)],
      [tok |-> "download:null",     key |-> "download", val |-> Other],
      [tok |-> "upload:0",          key |-> "upload",   val |-> IntNum(0)],
      [tok |-> "upload:10000000",   key |-> "upload",   val |-> IntNum(10000000)],
      [tok |-> "upload:'fast'",     key |-> "upload",   val |-> Other],
      [tok |-> "ping:-5",           key |-> "ping",     val |-> IntNum(-5)],
      [tok |-> "ping:0",            key |-> "ping",     val |-> IntNum(0)],
      [tok |-> "ping:0.4",          key |-> "ping",     val |-> FloatNum(4)],
      [tok |-> "ping:20",           key |-> "ping",     val |-> IntNum(20)],
      [tok |-> "ping:20.3",         key |-> "ping",     val |-> FloatNum(203)],
      [tok |-> "ping:20.5",         key |-> "ping",     val |-> FloatNum(205)],
      [tok |-> "ping:21.5",         key |-> "ping",     val |-> FloatNum(215)],
      [tok |-> "ping:10000",        key |-> "ping",     val |-> IntNum(10000)],
      [tok |-> "ping:10000.4",      key |-> "ping",     val |-> FloatNum(100004)],
      [tok |-> "ping:15000",        key |-> "ping",     val |-> IntNum(15000)],
      [tok |-> "ping:null",         key |-> "ping",     val |-> Other] }

MemberTokens == {m.tok : m \in MemberTable}
MemberOf(tok) == CHOOSE m \in MemberTable : m.tok = tok
TokensOf(key) == {m.tok : m \in {x \in MemberTable : x.key = key}}

\* dict.get(key, default) on a dict modelled as a function.
Get(d, key, default) == IF key \in DOMAIN d THEN d[key] ELSE default
\* The dict d with d[key] = val.
Put(d, key, val) == [k \in DOMAIN d \cup {key} |-> IF k = key THEN val ELSE d[k]]
EmptyDict == [k \in {} |-> Other]

\* json.loads(line): whitespace between tokens is skipped; an object is '{',
\* members separated by ',', '}'; anything after the object is "Extra data";
\* a repeated key keeps its last value.  st is what the decoder expects next.
RECURSIVE Decode(_, _, _, _)
Decode(line, i, st, obj) ==
    IF i > Len(line) THEN [ok |-> st = "end", obj |-> obj]
    ELSE LET c == line[i]
         IN  IF c \in {" ", "\t", "\n"} THEN Decode(line, i + 1, st, obj)
             ELSE IF st = "start" /\ c = "{" THEN Decode(line, i + 1, "open", obj)
             ELSE IF st = "open" /\ c = "}" THEN Decode(line, i + 1, "end", obj)
             ELSE IF st \in {"open", "comma"} /\ c \in MemberTokens
                  THEN Decode(line, i + 1, "member",
                              Put(obj, MemberOf(c).key, MemberOf(c).val))
             ELSE IF st = "member" /\ c = "," THEN Decode(line, i + 1, "comma", obj)
             ELSE IF st = "member" /\ c = "}" THEN Decode(line, i + 1, "end", obj)
             ELSE [ok |-> FALSE, obj |-> obj]

\* Mutant of json_loads: the first object of the line is decoded and what
\* follows it is ignored (raw_decode).
json_loads_prefix(line) ==
    LET ok == {k \in 1..Len(line) : Decode(SubSeq(line, 1, k), 1, "start", EmptyDict).ok}
    IN  IF ok = {} THEN Decode(line, 1, "start", EmptyDict)
        ELSE Decode(SubSeq(line, 1, SetMin(ok)), 1, "start", EmptyDict)

json_loads(line) == Decode(line, 1, "start", EmptyDict)

\* ---------------------------------------------------------- normalisation
\* round() of the fraction n/d to a whole number: to the nearest, a tie to
\* the even one (exact when the tie is exact in binary, which holds for every
\* value of MemberTable).
RoundHalfEven(n, d) ==
    LET q == n \div d
        r == n % d
    IN  IF 2 * r < d THEN q
        ELSE IF 2 * r > d THEN q + 1
        ELSE IF q % 2 = 0 THEN q ELSE q + 1

Abs(n) == IF n < 0 THEN -n ELSE n

\* str() of a float that is a whole number of hundredths h (neg: the float is
\* negative, -0.0 included): the shortest text that reads back as the float.
FloatRepr(h, neg) ==
    LET a == Abs(h)
        whole == ToString(a \div 100)
        frac == a % 100
    IN  (IF neg THEN "-" ELSE "")
        \o whole \o "."
        \o (IF frac % 10 = 0 THEN ToString(frac \div 10)
            ELSE IF frac < 10 THEN "0" \o ToString(frac)
            ELSE ToString(frac))

\* f"{round(x / 1000000, 2)} Mbit/s": true division gives a float.
MbitText(x) == FloatRepr(RoundHalfEven(x.v, Million \div 10), x.v < 0) \o " Mbit/s"

\* f"{round(x, 0)} ms": round(x, 0) of an int is that int, of a float a float.
PingText(x) ==
    IF x.t = "int" THEN ToString(x.v \div 10) \o " ms"
    ELSE FloatRepr(100 * RoundHalfEven(x.v, 10), x.v < 0) \o " ms"

\* Mutant of DownloadOf: the sentinel only below 0.0.
DownloadOfStrict(x) == IF x.v < 0 THEN "Utilgjengelig" ELSE MbitText(x)

\* The download shown: the sentinel for a value of 0.0 or less.
DownloadOf(x) == IF x.v <= 0 THEN "Utilgjengelig" ELSE MbitText(x)

\* The ping shown: the sentinel for a value above 10000 or of 0.0 or less.
PingOf(x) == IF x.v > 10 * PingMax \/ x.v <= 0 THEN "Feil/For hoy" ELSE PingText(x)

\* Lines 91-108: the three fields with their defaults, then upload, download
\* and ping in this order; arithmetic or comparison on a value that is not a
\* number raises TypeError.
Normalize(raw) ==
    LET raw_download_bits == Get(raw, "download", FloatNum(0))
        raw_upload_bits == Get(raw, "upload", FloatNum(0))
        raw_ping_ms == Get(raw, "ping", FloatNum(0))
    IN  IF /\ IsNumber(raw_upload_bits)
           /\ IsNumber(raw_download_bits)
           /\ IsNumber(raw_ping_ms)
        THEN [ok |-> TRUE,
              download |-> DownloadOf(raw_download_bits),
              upload |-> MbitText(raw_upload_bits),
              ping |-> PingOf(raw_ping_ms)]
        ELSE [ok |-> FALSE, download |-> "", upload |-> "", ping |-> ""]

\* ------------------------------------------------------------- responses
\* The context of a request body: a JSON string (its text in s) or a JSON
\* value that is no string.
StrVal(s) == [t |-> "str", s |-> s]
NullVal == [t |-> "null", s |-> <<>>]
\* The default of data.get('context', ...).
DefaultContext == StrVal(<<"Jeg surfer bare pa nettet.">>)
\* str() of a context, as the prompt's f-string interpolates it.
ContextText(c) == IF c.t = "str" THEN c.s ELSE <<"None">>

NoData == [download |-> "", upload |-> "", ping |-> "", context |-> NullVal]
NoProcess == [returncode |-> 0, stdout |-> <<>>, stderr |-> <<>>]
NoMetrics == [download |-> "", upload |-> "", ping |-> ""]

\* jsonify({'success': False, 'message': ...}), 500
Failure(message) ==
    [success |-> FALSE, status |-> 500, message |-> message,
     data |-> NoData, analysis |-> <<>>]
\* jsonify({'success': True, 'data': ..., 'analysis': ...}), status 200
Success(data, analysis) ==
    [success |-> TRUE, status |-> 200, message |-> <<>>,
     data |-> data, analysis |-> analysis]

\* An exception: its class, str() of it, and for CalledProcessError the
\* return code and the two captured streams.
Exc(type, msg) ==
    [type |-> type, msg |-> msg, returncode |-> 0, output |-> <<>>, stderr |-> <<>>]
CalledProcessError(returncode, output, stderr) ==
    [type |-> "CalledProcessError", msg |-> <<>>, returncode |-> returncode,
     output |-> output, stderr |-> stderr]

\* Part of the mutant HandlerWithoutCatchAll: the framework's own answer to an
\* exception that leaves the handler, which has no message.
InternalServerError ==
    [success |-> FALSE, status |-> 500, message |-> <<>>,
     data |-> NoData, analysis |-> <<>>]

\* Mutant of Handler: no except clause for TimeoutExpired, which the last
\* clause then answers.
HandlerWithoutTimeoutClause(e) ==
    IF e.type = "CalledProcessError"
    THEN Failure(<<"Kritisk Speedtest-feil. Sjekk installasjonen. ",
                   "Feil ved kjoring av Speedtest. Returkode: ",
                   ToString(e.returncode), ". STDOUT: ">>
                 \o Strip(e.output) \o <<". STDERR: ">> \o Strip(e.stderr))
    ELSE IF e.type = "ValueError"
    THEN Failure(<<"Serverfeil ved behandling av Speedtest-resultater: ">> \o e.msg)
    ELSE Failure(<<"En uforutsett feil oppstod pa serveren: ">> \o e.msg)

\* Mutant of Handler: no except Exception clause, so any other exception
\* leaves the handler.
HandlerWithoutCatchAll(e) ==
    IF e.type = "CalledProcessError"
    THEN Failure(<<"Kritisk Speedtest-feil. Sjekk installasjonen. ",
                   "Feil ved kjoring av Speedtest. Returkode: ",
                   ToString(e.returncode), ". STDOUT: ">>
                 \o Strip(e.output) \o <<". STDERR: ">> \o Strip(e.stderr))
    ELSE IF e.type = "TimeoutExpired"
    THEN Failure(<<"Feil: Hastighetstesten fullforte ikke innen 30 sekunder. Prov igjen.">>)
    ELSE IF e.type = "ValueError"
    THEN Failure(<<"Serverfeil ved behandling av Speedtest-resultater: ">> \o e.msg)
    ELSE InternalServerError

\* The four except clauses of run_test, in their order: the response given
\* for the exception e.
Handler(e) ==
    IF e.type = "CalledProcessError"
    THEN Failure(<<"Kritisk Speedtest-feil. Sjekk installasjonen. ",
                   "Feil ved kjoring av Speedtest. Returkode: ",
                   ToString(e.returncode), ". STDOUT: ">>
                 \o Strip(e.output) \o <<". STDERR: ">> \o Strip(e.stderr))
    ELSE IF e.type = "TimeoutExpired"
    THEN Failure(<<"Feil: Hastighetstesten fullforte ikke innen 30 sekunder. Prov igjen.">>)
    ELSE IF e.type = "ValueError"
    THEN Failure(<<"Serverfeil ved behandling av Speedtest-resultater: ">> \o e.msg)
    ELSE Failure(<<"En uforutsett feil oppstod pa serveren: ">> \o e.msg)

\* Mutant of Raise: the except clause answers and the stage is run again.
RaiseAndRetry(stage, e) ==
    /\ responses' = Append(responses, Handler(e))
    /\ failed' = stage
    /\ pc' = pc

\* An exception raised in a stage: the matching except clause answers and
\* the handler returns.
Raise(stage, e) ==
    /\ responses' = Append(responses, Handler(e))
    /\ failed' = stage
    /\ pc' = "done"

\* ----------------------------------------------------------------- inputs
\* What request.json gives: it raises for a body that is not JSON, else the
\* decoded value, an object (obj, with or without a context) or not.
ContextValues == {StrVal(<<>>), StrVal(<<"g">>), NullVal}
Bodies ==
    {[json |-> k, obj |-> <<>>] : k \in {"invalid", "null"}}
    \cup {[json |-> "object", obj |-> <<>>]}
    \cup {[json |-> "object", obj |-> [k \in {"context"} |-> c]] : c \in ContextValues}

\* The symbols the measurement tool writes to stdout.
Alphabet == {"{", "}", ",", " ", "\n", "x", "ping:20.3", "upload:'fast'"}
Stdouts == TextsUpTo(Alphabet, MaxLen)
Stderrs == {<<>>, <<" ", "e", "\n">>}
ReturnCodes == {0, 1}
\* How long the process runs, in seconds.
Durations == {1, TimeoutSecs + 1}
\* What the analysis service does: a report, or an exception of its own.
AiOutcomes == {"report", "ValueError", "Exception"}

\* ---------------------------------------------------------------- actions
Init ==
    /\ pc = "request"
    /\ user_context = NullVal
    /\ process = NoProcess
    /\ json_output = <<>>
    /\ test_data_raw = EmptyDict
    /\ metrics = NoMetrics
    /\ test_data = NoData
    /\ prompt = <<>>
    /\ responses = <<>>
    /\ trace = <<>>
    /\ spawned = 0
    /\ ai_calls = 0
    /\ failed = ""
    /\ request_body = [json |-> "", obj |-> <<>>]
    /\ run_outcome = ""

\* Lines 42-44: data = request.json; user_context = data.get('context', ...).
ReadRequest ==
    /\ pc = "request"
    /\ \E body \in Bodies :
         /\ request_body' = body
         /\ IF body.json = "invalid"
            THEN Raise("Request", Exc("BadRequest", <<"400 Bad Request">>))
                 /\ UNCHANGED user_context
            ELSE IF body.json /= "object"
            THEN Raise("Request", Exc("AttributeError", <<"'NoneType' object has no attribute 'get'">>))
                 /\ UNCHANGED user_context
            ELSE /\ user_context' = Get(body.obj, "context", DefaultContext)
                 /\ pc' = "runner"
                 /\ UNCHANGED <<responses, failed>>
    /\ UNCHANGED <<process, json_output, test_data_raw, metrics, test_data,
                   prompt, run_outcome, trace, spawned, ai_calls>>

\* Lines 54-65: subprocess.run under the deadline, then the return code.
Runner ==
    /\ pc = "runner"
    /\ trace' = Append(trace, "Runner")
    /\ spawned' = spawned + 1
    /\ \/ /\ Raise("Runner", Exc("FileNotFoundError", <<"[Errno 2] No such file or directory: 'speedtest'">>))
          /\ run_outcome' = "spawn_error"
          /\ UNCHANGED process
       \/ \E d \in Durations, rc \in ReturnCodes, out \in Stdouts, err \in Stderrs :
            IF d > TimeoutSecs
            THEN /\ Raise("Runner", Exc("TimeoutExpired", <<>>))
                 /\ run_outcome' = "timeout"
                 /\ UNCHANGED process
            ELSE /\ process' = [returncode |-> rc, stdout |-> out, stderr |-> err]
                 /\ run_outcome' = "exited"
                 /\ IF rc /= 0
                    THEN Raise("Runner", CalledProcessError(rc, out, err))
                    ELSE pc' = "extractor" /\ UNCHANGED <<responses, failed>>
    /\ UNCHANGED <<user_context, json_output, test_data_raw, metrics, test_data,
                   prompt, request_body, ai_calls>>

\* Mutant of ScanReversed: the lines from the first to the last.
ScanForward(lines, i) ==
    LET hits == {k \in 1..i : StartsWith(Strip(lines[k]), "{")}
    IN  IF hits = {} THEN <<>> ELSE Strip(lines[SetMin(hits)])

\* Lines 74-78: the lines from the last to the first, each stripped; the first
\* that starts with '{', or "" when none does.
RECURSIVE ScanReversed(_, _)
ScanReversed(lines, i) ==
    IF i = 0 THEN <<>>
    ELSE LET line == Strip(lines[i])
         IN  IF StartsWith(line, "{") THEN line ELSE ScanReversed(lines, i - 1)

\* Lines 70-78: json_output from the captured stdout.
Extract(stdout) ==
    LET stdout_lines == SplitLines(Strip(stdout))
    IN  ScanReversed(stdout_lines, Len(stdout_lines))

\* Lines 70-81.
Extractor ==
    /\ pc = "extractor"
    /\ trace' = Append(trace, "Extractor")
    /\ LET found == Extract(process.stdout)
       IN  /\ json_output' = found
           /\ IF found = <<>>
              THEN Raise("Extractor",
                         Exc("ValueError",
                             <<"Klarte ikke a finne JSON-utdata fra Speedtest. Full utdata (STDOUT): ">>
                             \o Strip(process.stdout) \o <<". STDERR: ">>
                             \o Strip(process.stderr)))
              ELSE pc' = "parser" /\ UNCHANGED <<responses, failed>>
    /\ UNCHANGED <<user_context, process, test_data_raw, metrics, test_data,
                   prompt, request_body, run_outcome, spawned, ai_calls>>

\* Lines 83-87.
Parser ==
    /\ pc = "parser"
    /\ trace' = Append(trace, "Parser")
    /\ LET r == json_loads(json_output)
       IN  IF r.ok
           THEN /\ test_data_raw' = r.obj
                /\ pc' = "normalizer"
                /\ UNCHANGED <<responses, failed>>
           ELSE /\ Raise("Parser",
                         Exc("ValueError",
                             <<"Feil ved dekoding av JSON: ", "JSONDecodeError", ". Mottatt: ">>
                             \o json_output))
                /\ UNCHANGED test_data_raw
    /\ UNCHANGED <<user_context, process, json_output, metrics, test_data,
                   prompt, request_body, run_outcome, spawned, ai_calls>>

\* Lines 91-108.
Normalizer ==
    /\ pc = "normalizer"
    /\ trace' = Append(trace, "Normalizer")
    /\ LET n == Normalize(test_data_raw)
       IN  IF n.ok
           THEN /\ metrics' = [download |-> n.download, upload |-> n.upload,
                               ping |-> n.ping]
                /\ pc' = "assembler"
                /\ UNCHANGED <<responses, failed>>
           ELSE /\ Raise("Normalizer", Exc("TypeError", <<"unsupported operand type(s)">>))
                /\ UNCHANGED metrics
    /\ UNCHANGED <<user_context, process, json_output, test_data_raw, test_data,
                   prompt, request_body, run_outcome, spawned, ai_calls>>

\* Lines 121-135: the prompt's f-string.
Prompt(m, context) ==
    <<"Analyser folgende resultater ... Data: - Nedlastingshastighet (Download): ",
      m.download, " - Opplastingshastighet (Upload): ", m.upload,
      " - Ping: ", m.ping, " - Brukerkontekst: ">> \o ContextText(context)

\* Lines 111-150: test_data, the prompt, the call of the analysis service and
\* the answer.
Assembler ==
    /\ pc = "assembler"
    /\ trace' = Append(trace, "Assembler")
    /\ test_data' = [download |-> metrics.download, upload |-> metrics.upload,
                     ping |-> metrics.ping, context |-> user_context]
    /\ prompt' = Prompt(metrics, user_context)
    /\ ai_calls' = ai_calls + 1
    /\ \E outcome \in AiOutcomes :
         IF outcome = "report"
         THEN /\ responses' = Append(responses, Success(test_data', <<"<p>report</p>">>))
              /\ pc' = "done"
              /\ UNCHANGED failed
         ELSE Raise("Assembler", Exc(outcome, <<"analysis service error">>))
    /\ UNCHANGED <<user_context, process, json_output, test_data_raw, metrics,
                   request_body, run_outcome, spawned>>

Next ==
    \/ ReadRequest
    \/ Runner
    \/ Extractor
    \/ Parser
    \/ Normalizer
    \/ Assembler

Spec == Init /\ [][Next]_vars

\* ------------------------------------------------- the normalisation alone
\* The members of a JSON object, separated by commas.
RECURSIVE Join(_)
Join(toks) ==
    IF Len(toks) <= 1 THEN toks ELSE <<toks[1], ",">> \o Join(Tail(toks))
ObjectText(toks) == <<"{">> \o Join(toks) \o <<"}">>
\* No member for the key, or one of its members.
MemberChoices(key) == {<<>>} \cup {<<tok>> : tok \in TokensOf(key)}

\* The handler after line 87 of a request {} whose process exited with code 0
\* and wrote one line: a JSON object with at most one member for each of
\* download, upload and ping, over all the values of MemberTable.
NormInit ==
    \E d \in MemberChoices("download"), u \in MemberChoices("upload"),
       p \in MemberChoices("ping") :
        /\ pc = "normalizer"
        /\ request_body = [json |-> "object", obj |-> <<>>]
        /\ user_context = DefaultContext
        /\ process = [returncode |-> 0, stdout |-> ObjectText(d \o u \o p) \o <<"\n">>,
                      stderr |-> <<>>]
        /\ run_outcome = "exited"
        /\ json_output = Extract(process.stdout)
        /\ test_data_raw = json_loads(json_output).obj
        /\ metrics = NoMetrics
        /\ test_data = NoData
        /\ prompt = <<>>
        /\ responses = <<>>
        /\ trace = <<"Runner", "Extractor", "Parser">>
        /\ spawned = 1
        /\ ai_calls = 0
        /\ failed = ""

NormNext ==
    \/ Normalizer
    \/ Assembler

NormSpec == NormInit /\ [][NormNext]_vars

\* ------------------------------------------------- what the claims read
\* The error kind of a failure response, read from the literals of the except
\* clause that built its message (and, for ValueError, of the raise).
Kind(r) ==
    IF r.success \/ r.message = <<>> THEN "None"
    ELSE IF r.message[1] = "Kritisk Speedtest-feil. Sjekk installasjonen. "
    THEN "ProcessError"
    ELSE IF r.message[1] = "Feil: Hastighetstesten fullforte ikke innen 30 sekunder. Prov igjen."
    THEN "TimeoutError"
    ELSE IF /\ r.message[1] = "Serverfeil ved behandling av Speedtest-resultater: "
            /\ Len(r.message) >= 2
            /\ r.message[2] = "Klarte ikke a finne JSON-utdata fra Speedtest. Full utdata (STDOUT): "
    THEN "ExtractionError"
    ELSE IF /\ r.message[1] = "Serverfeil ved behandling av Speedtest-resultater: "
            /\ Len(r.message) >= 2
            /\ r.message[2] = "Feil ved dekoding av JSON: "
    THEN "ParseError"
    ELSE "UnknownError"

Done == pc = "done"
\* The one response of a finished request.
TheResponse == responses[1]

\* The texts that are s without its leading and trailing whitespace,
\* everything between kept symbol for symbol.
TrimsOf(s) ==
    {SubSeq(s, i, j) : <<i, j>> \in
        {ij \in (1..(Len(s) + 1)) \X (0..Len(s)) :
            /\ \A k \in 1..Len(s) : (k < ij[1] \/ k > ij[2]) => s[k] \in Whitespace
            /\ ij[1] <= ij[2] => (s[ij[1]] \notin Whitespace /\ s[ij[2]] \notin Whitespace)}}

\* Position p of s opens a line, and the line's first symbol that is not
\* whitespace is '{' at position q.
BraceLineAt(s, p, q) ==
    /\ p \in 1..Len(s) /\ q \in p..Len(s)
    /\ (p = 1 \/ s[p - 1] \in LineBreaks)
    /\ s[q] = "{"
    /\ \A k \in p..(q - 1) : s[k] \in Whitespace \ LineBreaks
HasBraceLine(s) == \E p, q \in 1..Len(s) : BraceLineAt(s, p, q)
\* The end of the line that holds position q.
LineEnd(s, q) ==
    LET brk == {k \in q..Len(s) : s[k] \in LineBreaks}
    IN  IF brk = {} THEN Len(s) ELSE SetMin(brk) - 1

ProcessExited == run_outcome = "exited"
Ran(stage) == \E i \in 1..Len(trace) : trace[i] = stage

\* C1 as stated: whenever the process ends with a non-zero exit code the
\* response is a ProcessError failure whose message holds the exit code and
\* the captured stdout and stderr symbol for symbol, nothing trimmed, and no
\* extraction, parsing or analysis has taken place.
C1_ProcessErrorVerbatim ==
    (Done /\ ProcessExited /\ process.returncode /= 0) =>
        /\ Len(responses) = 1
        /\ ~TheResponse.success
        /\ Kind(TheResponse) = "ProcessError"
        /\ TheResponse.message =
              <<"Kritisk Speedtest-feil. Sjekk installasjonen. ",
                "Feil ved kjoring av Speedtest. Returkode: ",
                ToString(process.returncode), ". STDOUT: ">>
              \o process.stdout \o <<". STDERR: ">> \o process.stderr
        /\ trace = <<"Runner">> /\ json_output = <<>> /\ ai_calls = 0

\* C1 as amended: whenever the process ends with a non-zero exit code the
\* response is a ProcessError failure whose message holds the exit code and
\* the captured stdout and stderr without their leading and trailing
\* whitespace (everything between kept symbol for symbol), whatever the
\* stdout holds, and no extraction, parsing or analysis has taken place.
C1_ProcessErrorTrimmed ==
    (Done /\ ProcessExited /\ process.returncode /= 0) =>
        /\ Len(responses) = 1
        /\ ~TheResponse.success
        /\ Kind(TheResponse) = "ProcessError"
        /\ \E o \in TrimsOf(process.stdout), e \in TrimsOf(process.stderr) :
               TheResponse.message =
                     <<"Kritisk Speedtest-feil. Sjekk installasjonen. ",
                       "Feil ved kjoring av Speedtest. Returkode: ",
                       ToString(process.returncode), ". STDOUT: ">>
                     \o o \o <<". STDERR: ">> \o e
        /\ trace = <<"Runner">> /\ json_output = <<>> /\ ai_calls = 0
        /\ test_data_raw = EmptyDict /\ metrics = NoMetrics

\* C1's case: exit code 1 with a well-formed '{' line between whitespace on
\* stdout, answered.
C1_Witness ==
    /\ Done /\ ProcessExited /\ process.returncode = 1
    /\ process.stdout = <<" ", "{", "}", "\n">>
    /\ process.stderr = <<" ", "e", "\n">>
    /\ Len(responses) = 1

\* C2: whenever the process has not finished by the deadline the response is
\* a TimeoutError failure, its message the fixed text alone (no output of the
\* process in it), no other outcome is answered with that kind, and neither
\* extraction, parsing, normalisation nor the analysis service has run.
C2_Timeout ==
    /\ (Done /\ run_outcome = "timeout") =>
          /\ Len(responses) = 1
          /\ ~TheResponse.success
          /\ Kind(TheResponse) = "TimeoutError"
          /\ Len(TheResponse.message) = 1
          /\ process = NoProcess
          /\ trace = <<"Runner">> /\ json_output = <<>> /\ ai_calls = 0
          /\ test_data_raw = EmptyDict /\ metrics = NoMetrics
    /\ (Done /\ Kind(TheResponse) = "TimeoutError") => run_outcome = "timeout"

\* C2's case: the deadline passed and the request is answered.
C2_Witness == Done /\ run_outcome = "timeout" /\ Len(responses) = 1

\* C3: for every stdout of a process that exited with code 0 and that has a
\* line whose first non-whitespace symbol is '{', the extracted line is the
\* last such line of stdout, from its '{' to its last non-whitespace symbol,
\* and that line is what the parser is given.
C3_LastBraceLine ==
    (ProcessExited /\ process.returncode = 0 /\ Ran("Extractor")
       /\ HasBraceLine(process.stdout)) =>
        \E p, q \in 1..Len(process.stdout) :
            /\ BraceLineAt(process.stdout, p, q)
            /\ \A p2, q2 \in 1..Len(process.stdout) :
                  BraceLineAt(process.stdout, p2, q2) => p2 <= p
            /\ json_output \in
                  TrimsOf(SubSeq(process.stdout, q, LineEnd(process.stdout, q)))
            /\ Ran("Parser")
                 => (IF json_loads(json_output).ok
                     THEN test_data_raw = json_loads(json_output).obj
                     ELSE Kind(TheResponse) = "ParseError")

\* C3's case: two '{' lines, the earlier one a well-formed object and the
\* last one not; the last one was extracted and given to the parser.
C3_Witness ==
    /\ process.stdout = <<"{", "}", "\n", "{">>
    /\ Ran("Parser")
    /\ json_output = <<"{">>

\* C4 as stated: whenever the process exits with code 0 and stdout has no
\* line whose first non-whitespace symbol is '{', the response is an
\* ExtractionError failure whose message holds the raw stdout and stderr
\* unmodified, and neither the parser nor the analysis service has run.
C4_ExtractionErrorVerbatim ==
    (Done /\ ProcessExited /\ process.returncode = 0
       /\ ~HasBraceLine(process.stdout)) =>
        /\ Len(responses) = 1
        /\ ~TheResponse.success
        /\ Kind(TheResponse) = "ExtractionError"
        /\ TheResponse.message =
              <<"Serverfeil ved behandling av Speedtest-resultater: ",
                "Klarte ikke a finne JSON-utdata fra Speedtest. Full utdata (STDOUT): ">>
              \o process.stdout \o <<". STDERR: ">> \o process.stderr
        /\ ~Ran("Parser") /\ ai_calls = 0

\* C4 as amended: whenever the process exits with code 0 and stdout has no
\* line whose first non-whitespace symbol is '{' (an empty or all-whitespace
\* stdout included), the response is an ExtractionError failure whose message
\* holds the stdout and the stderr without their leading and trailing
\* whitespace, and neither the parser nor the analysis service has run.
C4_ExtractionErrorTrimmed ==
    (ProcessExited /\ process.returncode = 0 /\ pc /= "extractor"
       /\ ~HasBraceLine(process.stdout)) =>
        /\ Done
        /\ Len(responses) = 1
        /\ ~TheResponse.success
        /\ Kind(TheResponse) = "ExtractionError"
        /\ \E o \in TrimsOf(process.stdout), e \in TrimsOf(process.stderr) :
               TheResponse.message =
                     <<"Serverfeil ved behandling av Speedtest-resultater: ",
                       "Klarte ikke a finne JSON-utdata fra Speedtest. Full utdata (STDOUT): ">>
                     \o o \o <<". STDERR: ">> \o e
        /\ trace = <<"Runner", "Extractor">> /\ ai_calls = 0
        /\ test_data_raw = EmptyDict /\ metrics = NoMetrics

\* C4's case: stdout with text and a '{' that opens no line, between
\* whitespace; the request is answered.
C4_Witness ==
    /\ Done /\ ProcessExited /\ process.returncode = 0
    /\ process.stdout = <<" ", "x", "{", "\n">>
    /\ process.stderr = <<" ", "e", "\n">>
    /\ Len(responses) = 1

\* C5: whenever the extracted line does not decode (an unterminated object, a
\* trailing comma, text after the object, members without a comma), the
\* response is a ParseError failure whose message holds the decode cause and
\* the extracted line; no failure of another stage is answered with that kind
\* and the kind is neither ExtractionError nor UnknownError; nothing after the
\* parser has run.
C5_ParseError ==
    /\ (Ran("Parser") /\ ~json_loads(json_output).ok) =>
          /\ Done /\ Len(responses) = 1
          /\ ~TheResponse.success
          /\ Kind(TheResponse) = "ParseError"
          /\ TheResponse.message =
                <<"Serverfeil ved behandling av Speedtest-resultater: ",
                  "Feil ved dekoding av JSON: ", "JSONDecodeError", ". Mottatt: ">>
                \o json_output
          /\ trace = <<"Runner", "Extractor", "Parser">> /\ ai_calls = 0
          /\ metrics = NoMetrics
    /\ (Ran("Parser") /\ json_output \in
            {<<"{">>, <<"{", "}", "x">>, <<"{", "}", "}">>,
             <<"{", "ping:20.3", ",", "}">>, <<"{", ",", "}">>,
             <<"{", "ping:20.3", "ping:20.3", "}">>, <<"{", "x", "}">>})
          => (Done /\ Kind(TheResponse) = "ParseError")
    /\ (Done /\ Kind(TheResponse) = "ParseError") => failed = "Parser"
    /\ (Done /\ failed = "Extractor") => Kind(TheResponse) = "ExtractionError"
    /\ (Done /\ failed \in {"Request", "Normalizer"})
          => Kind(TheResponse) = "UnknownError"

\* C5's case: a '{' line with text after the object was extracted and the
\* parser has answered.
C5_Witness ==
    /\ Done /\ failed = "Parser"
    /\ json_output = <<"{", "}", "x">>
    /\ Len(responses) = 1

\* The normaliser has run and raised nothing.
Normalized == Ran("Normalizer") /\ failed /= "Normalizer"

\* C6: for every decoded record that is normalised, the download shown is
\* the sentinel exactly when the record has no download or one of 0 or less;
\* for a download above 0 it is the value over 1,000,000 to the nearest
\* hundredth, written as a float, followed by " Mbit/s"; a successful
\* response carries that text.
C6_Download ==
    Normalized =>
        LET has == "download" \in DOMAIN test_data_raw
            v == IF has THEN test_data_raw["download"].v ELSE 0
        IN  /\ (metrics.download = "Utilgjengelig") <=> (~has \/ v <= 0)
            /\ (has /\ v > 0) =>
                  \E h \in 0..(v \div 100000 + 1) :
                      /\ h * 100000 - v <= 50000
                      /\ v - h * 100000 <= 50000
                      /\ metrics.download = FloatRepr(h, FALSE) \o " Mbit/s"
            /\ (has /\ v = 500000000) => metrics.download = "50.0 Mbit/s"
            /\ (has /\ v = 123456780) => metrics.download = "12.35 Mbit/s"
            /\ (has /\ v = 10) => metrics.download = "0.0 Mbit/s"
            /\ (Done /\ TheResponse.success)
                  => TheResponse.data.download = metrics.download

\* C6's case: a record with download 12345678 has been normalised.
C6_Witness ==
    /\ Normalized
    /\ "download" \in DOMAIN test_data_raw
    /\ test_data_raw["download"] = IntNum(12345678)
    /\ metrics.download = "12.35 Mbit/s"

\* C7: for every decoded record that is normalised, the ping shown is the
\* sentinel exactly when the record has no ping or one of 0 or less or above
\* 10000; for a ping in (0, 10000], an integer or a fraction, it is the ping
\* to the nearest whole number, written as a whole number, followed by " ms"
\* (20.3 gives "20 ms").
C7_PingWhole ==
    Normalized =>
        LET has == "ping" \in DOMAIN test_data_raw
            v == IF has THEN test_data_raw["ping"].v ELSE 0
        IN  /\ (metrics.ping = "Feil/For hoy") <=> (~has \/ v <= 0 \/ v > 100000)
            /\ (has /\ v > 0 /\ v <= 100000) =>
                  \E n \in 0..10000 :
                      /\ 10 * n - v <= 5
                      /\ v - 10 * n <= 5
                      /\ metrics.ping = ToString(n) \o " ms"

\* C8: every request ends with exactly one response, a success or a failure
\* of the shape {success: false, message} with status 500 built by one of
\* the except clauses; a request that is not answered is at one of the six
\* steps of the handler with nothing raised and stages left to run; and
\* whatever raised (the body, the spawn, the exit code, the deadline, the
\* extraction, the decoding, a value that is no number, the analysis
\* service), the response is a failure.
C8_UniformFailure ==
    /\ Len(responses) <= 1
    /\ Done <=> Len(responses) = 1
    /\ ~Done => /\ pc \in {"request", "runner", "extractor", "parser",
                            "normalizer", "assembler"}
                /\ Len(trace) < 5
                /\ failed = ""
    /\ Done =>
          \/ /\ TheResponse.success /\ TheResponse.status = 200
             /\ failed = ""
          \/ /\ ~TheResponse.success /\ TheResponse.status = 500
             /\ TheResponse.message /= <<>>
             /\ TheResponse.message[1] \in
                   {"Kritisk Speedtest-feil. Sjekk installasjonen. ",
                    "Feil: Hastighetstesten fullforte ikke innen 30 sekunder. Prov igjen.",
                    "Serverfeil ved behandling av Speedtest-resultater: ",
                    "En uforutsett feil oppstod pa serveren: "}
             /\ TheResponse.data = NoData /\ TheResponse.analysis = <<>>
             /\ failed /= ""
    /\ (\/ request_body.json \in {"invalid", "null"}
        \/ run_outcome \in {"spawn_error", "timeout"}
        \/ (ProcessExited /\ process.returncode /= 0)
        \/ (Ran("Extractor") /\ json_output = <<>>)
        \/ (Ran("Parser") /\ ~json_loads(json_output).ok)
        \/ (Ran("Normalizer")
              /\ \E k \in DOMAIN test_data_raw : ~IsNumber(test_data_raw[k]))
        \/ failed /= "")
          => (Done /\ ~TheResponse.success)

\* C8's case: a well-formed record whose upload is no number was decoded and
\* the request is answered.
C8_Witness ==
    /\ Done /\ failed = "Normalizer"
    /\ "upload" \in DOMAIN test_data_raw
    /\ ~IsNumber(test_data_raw["upload"])
    /\ Len(responses) = 1

\* C9: the context used in the prompt and returned in a success is the
\* caller's context when that is a non-empty string and the fixed fallback
\* in every other case, a body without a context and an empty context alike.
C9_ContextFallback ==
    (pc /= "request" /\ request_body.json = "object") =>
        LET obj == request_body.obj
            expected == IF "context" \in DOMAIN obj
                           /\ obj["context"].t = "str"
                           /\ obj["context"].s /= <<>>
                        THEN obj["context"] ELSE DefaultContext
        IN  /\ user_context = expected
            /\ (Done /\ TheResponse.success) => TheResponse.data.context = expected

Stages == <<"Runner", "Extractor", "Parser", "Normalizer", "Assembler">>

\* C10: the stages run in the order Runner, Extractor, Parser, Normalizer,
\* Assembler, each at most once; the tool is spawned at most once; the
\* analysis service is called at most once, and only after the process
\* exited with code 0, a '{' line was extracted, it decoded and the three
\* metrics were normalised; once a stage has raised, the request is answered
\* with a failure and that stage is the last that ran.
C10_LinearOnce ==
    /\ Len(trace) <= Len(Stages)
    /\ \A i \in 1..Len(trace) : trace[i] = Stages[i]
    /\ spawned = (IF Ran("Runner") THEN 1 ELSE 0)
    /\ ai_calls = (IF Ran("Assembler") THEN 1 ELSE 0)
    /\ ai_calls = 1 =>
          /\ ProcessExited /\ process.returncode = 0
          /\ StartsWith(json_output, "{")
          /\ HasBraceLine(process.stdout)
          /\ json_loads(json_output).ok
          /\ test_data_raw = json_loads(json_output).obj
          /\ metrics.download /= "" /\ metrics.upload /= "" /\ metrics.ping /= ""
          /\ trace = Stages
    /\ failed /= "" =>
          /\ Done /\ Len(responses) = 1
          /\ ~TheResponse.success
          /\ IF failed = "Request" THEN trace = <<>>
             ELSE trace /= <<>> /\ trace[Len(trace)] = failed
    /\ (Done /\ failed = "") => (TheResponse.success /\ trace = Stages)

\* C10's case: all five stages have run and the request succeeded.
C10_Witness ==
    /\ Done /\ trace = Stages
    /\ Len(responses) = 1 /\ TheResponse.success
    /\ spawned = 1 /\ ai_calls = 1

====
